---- MODULE Spec2Model ----
(***************************************************************************)
(* State machine of the WeatherEmulationTool effect                        *)
(* (src/components/weather-emulation-tool.tsx): the rain and snow particle *)
(* populations, the fog descriptor, the control-panel handlers, the frame  *)
(* loop and the effect cleanup.                                            *)
(*                                                                         *)
(* Units.  Coordinates are the values held by the Float32Array position    *)
(* buffers, on a grid of 1/Scale world units: a stored coordinate is the   *)
(* real value rounded to the nearest grid point (ToFloat32).  Parameters   *)
(* are held on the grid of their slider: speeds in 1/100, wind strengths   *)
(* in 1/10, sizes in 1/100, fog density in 1/1000, colours as the hex      *)
(* integer.  Math.random() returns k/RandDenom for 0 <= k < RandDenom.     *)
(***************************************************************************)
EXTENDS Integers, Sequences, FiniteSets, TLC

VARIABLES
    params,          \* the params object (lines 103-123)
    rainParticles,   \* THREE.Points | null: [visible, rotationY]
    rainGeometry,    \* THREE.BufferGeometry | null: [id, position]
    rainMaterial,    \* THREE.PointsMaterial | null: [id, size, color]
    snowParticles,
    snowGeometry,
    snowMaterial,
    sceneChildren,   \* the population display objects attached to the scene
    sceneFog,        \* scene.fog: null or [color, density]
    rainTextureRef,  \* rainTextureRef.current: the texture or null
    snowTextureRef,
    disposed,        \* the resources dispose() has been called on
    guiRef,          \* TRUE while the control panel exists
    animationFrame,  \* "call": animate() of line 344 is about to run; "requested": requestAnimationFrame is armed
    cleanedUp,       \* the effect cleanup has run
    allocations,     \* number of BufferGeometry objects built so far (gives each its id)
    frames,          \* number of animate invocations so far
    lastOp,          \* the handler that ran last
    recycledRain,    \* indices of the rain particles re-seeded by the last handler
    recycledSnow

vars == <<params, rainParticles, rainGeometry, rainMaterial, snowParticles,
          snowGeometry, snowMaterial, sceneChildren, sceneFog, rainTextureRef,
          snowTextureRef, disposed,
          guiRef, animationFrame, cleanedUp, allocations,
          frames, lastOp, recycledRain, recycledSnow>>

rainVars == <<rainParticles, rainGeometry, rainMaterial>>
snowVars == <<snowParticles, snowGeometry, snowMaterial>>

\* JavaScript null
Null == [null |-> TRUE]

-----------------------------------------------------------------------------
(* Bounds of the model *)

\* animate invocations explored
MaxFrames == 2
\* BufferGeometry objects built in one run
MaxAllocs == 2

-----------------------------------------------------------------------------
(* Numbers *)

\* grid points per world unit of a stored coordinate
Scale == 200
\* Math.random() yields k / RandDenom
RandDenom == 32768

\* the values Math.random() is taken to return: the smallest and the largest
RandomSamples == {0, RandDenom - 1}

\* values of Math.sin / Math.cos of the flutter phase (time is Date.now()):
\* the two extremes
TrigSamples == {-1, 1}

\* a real num/den stored in a Float32Array: rounded to the nearest grid point
ToFloat32(num, den) == (2 * num + den) \div (2 * den)

\* Math.random() * 50 - 25, stored
RandomXZ(k) == ToFloat32((k * 50 - 25 * RandDenom) * Scale, RandDenom)
\* Math.random() * 30 + 5, stored (createRain / createSnow)
SpawnY(k) == ToFloat32((k * 30 + 5 * RandDenom) * Scale, RandDenom)
\* fault: the recycling ifs re-seed y in the creation band (+ 5)
RecycleY_SpawnBand(k) == ToFloat32((k * 30 + 5 * RandDenom) * Scale, RandDenom)
\* Math.random() * 30 + 10, stored (updateRain / updateSnow)
RecycleY(k) == ToFloat32((k * 30 + 10 * RandDenom) * Scale, RandDenom)

\* the positions one loop iteration of createRain / createSnow can push
SpawnPositions ==
    { [x |-> RandomXZ(kx), y |-> SpawnY(ky), z |-> RandomXZ(kz)] :
        kx \in RandomSamples, ky \in RandomSamples, kz \in RandomSamples }

\* the positions the body of a recycling `if` can assign
RecyclePositions ==
    { [x |-> RandomXZ(kx), y |-> RecycleY(ky), z |-> RandomXZ(kz)] :
        kx \in RandomSamples, ky \in RandomSamples, kz \in RandomSamples }

\* all sequences taking their i-th element from sets[i]
RECURSIVE Product(_)
Product(sets) ==
    IF Len(sets) = 0 THEN { <<>> }
    ELSE { <<h>> \o t : h \in Head(sets), t \in Product(Tail(sets)) }

\* the buffers the creation loop can fill for a given count
SpawnBuffers(count) == Product([i \in 1..count |-> SpawnPositions])

\* fault: the sideways check tests the upper faces only
OutsideXZ_UpperOnly(p) ==
    \/ p.x > 25 * Scale
    \/ p.z > 25 * Scale

\* positions[i] > 25 || positions[i] < -25 || positions[i+2] > 25 || positions[i+2] < -25
OutsideXZ(p) ==
    \/ p.x > 25 * Scale
    \/ p.x < -25 * Scale
    \/ p.z > 25 * Scale
    \/ p.z < -25 * Scale

\* the two recycling ifs of the update loops, applied to a moved particle m
Recycle(m) ==
    LET first == IF m.y < 0 THEN RecyclePositions ELSE {m}
    IN UNION { { [pos |-> r, recycled |-> (m.y < 0) \/ OutsideXZ(q)] :
                   r \in (IF OutsideXZ(q) THEN RecyclePositions ELSE {q}) } :
               q \in first }

-----------------------------------------------------------------------------
(* Rain system *)

\* the geometry and material a create function releases before it rebuilds
Released(geometry, material) ==
    (IF geometry # Null THEN {<<"geometry", geometry.id>>} ELSE {})
        \cup (IF material # Null THEN {<<"material", material.id>>} ELSE {})

\* reads the params the calling handler has just written (params')
createRain ==
    /\ allocations < MaxAllocs
    /\ allocations' = allocations + 1
    /\ disposed' = disposed \cup Released(rainGeometry, rainMaterial)
    /\ \E buf \in SpawnBuffers(params'.rainIntensity) :
         rainGeometry' = [id |-> allocations + 1, position |-> buf]
    /\ rainMaterial' = [id |-> allocations + 1, size |-> params'.rainSize,
                        color |-> params'.rainColor]
    /\ rainParticles' = [visible |-> TRUE, rotationY |-> 0]
    /\ sceneChildren' = sceneChildren \cup {"rain"}

\* fault: the fall step is rainSpeed, not rainSpeed * 0.1
RainMove_NoTenth(p) ==
    [x |-> ToFloat32(p.x * 1000 + params.windStrengthX * 5 * Scale, 1000),
     y |-> ToFloat32(p.y * 100 - params.rainSpeed * Scale, 100),
     z |-> ToFloat32(p.z * 1000 + params.windStrengthZ * 5 * Scale, 1000)]

\* positions[i+1] -= rainSpeed * 0.1; positions[i] += windX * 0.05; positions[i+2] += windZ * 0.05
RainMove(p) ==
    [x |-> ToFloat32(p.x * 1000 + params.windStrengthX * 5 * Scale, 1000),
     y |-> ToFloat32(p.y * 1000 - params.rainSpeed * Scale, 1000),
     z |-> ToFloat32(p.z * 1000 + params.windStrengthZ * 5 * Scale, 1000)]

RainOutcomes(p) == Recycle(RainMove(p))

\* fault: a recycled particle is dropped from the buffer instead of re-seeded
updateRain_DropsRecycled ==
    IF rainParticles = Null \/ rainGeometry = Null \/ ~params.rain
    THEN /\ rainParticles' = IF rainParticles # Null
                             THEN [rainParticles EXCEPT !.visible = FALSE]
                             ELSE rainParticles
         /\ UNCHANGED rainGeometry
         /\ recycledRain' = {}
    ELSE \E o \in Product([i \in 1..Len(rainGeometry.position) |->
                            RainOutcomes(rainGeometry.position[i])]) :
         /\ rainParticles' = [rainParticles EXCEPT !.visible = TRUE]
         /\ rainGeometry' = [rainGeometry EXCEPT
                               !.position = SelectSeq([i \in 1..Len(o) |-> o[i]],
                                                      LAMBDA e : ~e.recycled)]
         /\ recycledRain' = {i \in 1..Len(o) : o[i].recycled}

updateRain ==
    IF rainParticles = Null \/ rainGeometry = Null \/ ~params.rain
    THEN /\ rainParticles' = IF rainParticles # Null
                             THEN [rainParticles EXCEPT !.visible = FALSE]
                             ELSE rainParticles
         /\ UNCHANGED rainGeometry
         /\ recycledRain' = {}
    ELSE \E o \in Product([i \in 1..Len(rainGeometry.position) |->
                            RainOutcomes(rainGeometry.position[i])]) :
         /\ rainParticles' = [rainParticles EXCEPT !.visible = TRUE]
         /\ rainGeometry' = [rainGeometry EXCEPT
                               !.position = [i \in 1..Len(o) |-> o[i].pos]]
         /\ recycledRain' = {i \in 1..Len(o) : o[i].recycled}

-----------------------------------------------------------------------------
(* Snow system *)

createSnow ==
    /\ allocations < MaxAllocs
    /\ allocations' = allocations + 1
    /\ disposed' = disposed \cup Released(snowGeometry, snowMaterial)
    /\ \E buf \in SpawnBuffers(params'.snowIntensity) :
         snowGeometry' = [id |-> allocations + 1, position |-> buf]
    /\ snowMaterial' = [id |-> allocations + 1, size |-> params'.flakeSize,
                        color |-> params'.snowColor]
    /\ snowParticles' = [visible |-> TRUE, rotationY |-> 0]
    /\ sceneChildren' = sceneChildren \cup {"snow"}

\* positions[i+1] -= snowSpeed * 0.1
\* positions[i]   += windX * 0.07 + Math.sin(time + positions[i+2] * 0.5 + i * 0.1) * 0.03
\* positions[i+2] += windZ * 0.07 + Math.cos(time + positions[i] * 0.5 + i * 0.1) * 0.03
\* sin and cos are the values the two calls return for the current Date.now()
SnowMove(p, sin, cos) ==
    [x |-> ToFloat32(p.x * 1000 + params.windStrengthX * 7 * Scale + sin * 30 * Scale, 1000),
     y |-> ToFloat32(p.y * 1000 - params.snowSpeed * Scale, 1000),
     z |-> ToFloat32(p.z * 1000 + params.windStrengthZ * 7 * Scale + cos * 30 * Scale, 1000)]

SnowOutcomes(p) ==
    UNION { Recycle(SnowMove(p, sin, cos)) : sin \in TrigSamples, cos \in TrigSamples }

updateSnow ==
    IF snowParticles = Null \/ snowGeometry = Null \/ ~params.snow
    THEN /\ snowParticles' = IF snowParticles # Null
                             THEN [snowParticles EXCEPT !.visible = FALSE]
                             ELSE snowParticles
         /\ UNCHANGED snowGeometry
         /\ recycledSnow' = {}
    ELSE \E o \in Product([i \in 1..Len(snowGeometry.position) |->
                            SnowOutcomes(snowGeometry.position[i])]) :
         /\ snowParticles' = [snowParticles EXCEPT
                                !.visible = TRUE,
                                !.rotationY = snowParticles.rotationY + 5]
         /\ snowGeometry' = [snowGeometry EXCEPT
                               !.position = [i \in 1..Len(o) |-> o[i].pos]]
         /\ recycledSnow' = {i \in 1..Len(o) : o[i].recycled}

-----------------------------------------------------------------------------
(* Fog system *)

\* fault: an existing descriptor gets the new colour but keeps its density
updateFog_KeepsDensity ==
    IF params'.fog
    THEN IF sceneFog = Null
         THEN sceneFog' = [color |-> params'.fogColor, density |-> params'.fogDensity]
         ELSE sceneFog' = [sceneFog EXCEPT !.color = params'.fogColor]
    ELSE sceneFog' = Null

\* reads the params the calling handler has just written (params')
updateFog ==
    IF params'.fog
    THEN IF sceneFog = Null
         THEN sceneFog' = [color |-> params'.fogColor, density |-> params'.fogDensity]
         ELSE sceneFog' = [sceneFog EXCEPT !.color = params'.fogColor,
                                           !.density = params'.fogDensity]
    ELSE sceneFog' = Null

-----------------------------------------------------------------------------
(* Control panel (lil-gui): a controller writes the new value into params  *)
(* and then calls its onChange / onFinishChange callback.                  *)

\* the values the model moves each slider to; an Intensity slider value is the
\* number of particles, its range 100..20000 scaled down to 1..2
RainSizeInputs == {30, 100}
FlakeSizeInputs == {20, 100}
FogDensityInputs == {0, 20, 50, 200}
FogColorInputs == {13421772, 8421504}

\* a handler can run once the effect body has returned and until gui.destroy()
GuiReady == guiRef /\ animationFrame = "requested"

NoRecycle == recycledRain' = {} /\ recycledSnow' = {}

\* fault: enabling always rebuilds the population
OnChangeRain_AlwaysCreates ==
    /\ GuiReady
    /\ params' = [params EXCEPT !.rain = ~params.rain]
    /\ IF params'.rain
       THEN createRain
       ELSE /\ rainParticles' = IF rainParticles # Null
                                THEN [rainParticles EXCEPT !.visible = params'.rain]
                                ELSE rainParticles
            /\ UNCHANGED <<rainGeometry, rainMaterial, allocations, disposed, sceneChildren>>
    /\ NoRecycle
    /\ lastOp' = "onChangeRain"
    /\ UNCHANGED <<snowVars, sceneFog, rainTextureRef, snowTextureRef, guiRef,
                   animationFrame, cleanedUp, frames>>

\* "Enable Rain" checkbox
OnChangeRain ==
    /\ GuiReady
    /\ params' = [params EXCEPT !.rain = ~params.rain]
    /\ IF params'.rain /\ rainParticles = Null
       THEN createRain
       ELSE /\ rainParticles' = IF rainParticles # Null
                                THEN [rainParticles EXCEPT !.visible = params'.rain]
                                ELSE rainParticles
            /\ UNCHANGED <<rainGeometry, rainMaterial, allocations, disposed, sceneChildren>>
    /\ NoRecycle
    /\ lastOp' = "onChangeRain"
    /\ UNCHANGED <<snowVars, sceneFog, rainTextureRef, snowTextureRef, guiRef,
                   animationFrame, cleanedUp, frames>>

\* rain "Intensity" slider released on one of `values`: onFinishChange(createRain)
OnFinishChangeRainIntensity(values) ==
    /\ GuiReady
    /\ \E v \in values : params' = [params EXCEPT !.rainIntensity = v]
    /\ createRain
    /\ NoRecycle
    /\ lastOp' = "onFinishChangeRainIntensity"
    /\ UNCHANGED <<snowVars, sceneFog, rainTextureRef, snowTextureRef, guiRef,
                   animationFrame, cleanedUp, frames>>

\* fault: a size change rebuilds the population
OnChangeRainSize_Rebuilds ==
    /\ GuiReady
    /\ \E v \in RainSizeInputs \ {params.rainSize} :
         params' = [params EXCEPT !.rainSize = v]
    /\ createRain
    /\ NoRecycle
    /\ lastOp' = "onChangeRainSize"
    /\ UNCHANGED <<snowVars, sceneFog, rainTextureRef, snowTextureRef, guiRef,
                   animationFrame, cleanedUp, frames>>

\* rain "Size" slider
OnChangeRainSize ==
    /\ GuiReady
    /\ \E v \in RainSizeInputs \ {params.rainSize} :
         params' = [params EXCEPT !.rainSize = v]
    /\ rainMaterial' = IF rainMaterial # Null
                       THEN [rainMaterial EXCEPT !.size = params'.rainSize]
                       ELSE rainMaterial
    /\ NoRecycle
    /\ lastOp' = "onChangeRainSize"
    /\ UNCHANGED <<rainParticles, rainGeometry, snowVars, sceneChildren, sceneFog,
                   rainTextureRef, snowTextureRef, disposed, guiRef, animationFrame,
                   cleanedUp, allocations, frames>>

\* "Enable Snow" checkbox
OnChangeSnow ==
    /\ GuiReady
    /\ params' = [params EXCEPT !.snow = ~params.snow]
    /\ IF params'.snow /\ snowParticles = Null
       THEN createSnow
       ELSE /\ snowParticles' = IF snowParticles # Null
                                THEN [snowParticles EXCEPT !.visible = params'.snow]
                                ELSE snowParticles
            /\ UNCHANGED <<snowGeometry, snowMaterial, allocations, disposed, sceneChildren>>
    /\ NoRecycle
    /\ lastOp' = "onChangeSnow"
    /\ UNCHANGED <<rainVars, sceneFog, rainTextureRef, snowTextureRef, guiRef,
                   animationFrame, cleanedUp, frames>>

\* snow "Intensity" slider released on one of `values`: onFinishChange(createSnow)
OnFinishChangeSnowIntensity(values) ==
    /\ GuiReady
    /\ \E v \in values : params' = [params EXCEPT !.snowIntensity = v]
    /\ createSnow
    /\ NoRecycle
    /\ lastOp' = "onFinishChangeSnowIntensity"
    /\ UNCHANGED <<rainVars, sceneFog, rainTextureRef, snowTextureRef, guiRef,
                   animationFrame, cleanedUp, frames>>

\* snow "Flake Size" slider
OnChangeFlakeSize ==
    /\ GuiReady
    /\ \E v \in FlakeSizeInputs \ {params.flakeSize} :
         params' = [params EXCEPT !.flakeSize = v]
    /\ snowMaterial' = IF snowMaterial # Null
                       THEN [snowMaterial EXCEPT !.size = params'.flakeSize]
                       ELSE snowMaterial
    /\ NoRecycle
    /\ lastOp' = "onChangeFlakeSize"
    /\ UNCHANGED <<snowParticles, snowGeometry, rainVars, sceneChildren, sceneFog,
                   rainTextureRef, snowTextureRef, disposed, guiRef, animationFrame,
                   cleanedUp, allocations, frames>>

\* the three fog controllers, each onChange(updateFog)
FogHandler(op) ==
    /\ updateFog
    /\ NoRecycle
    /\ lastOp' = op
    /\ UNCHANGED <<rainVars, snowVars, sceneChildren, rainTextureRef, snowTextureRef,
                   disposed, guiRef, animationFrame, cleanedUp, allocations, frames>>

OnChangeFog ==
    /\ GuiReady
    /\ params' = [params EXCEPT !.fog = ~params.fog]
    /\ FogHandler("onChangeFog")

OnChangeFogDensity ==
    /\ GuiReady
    /\ \E v \in FogDensityInputs \ {params.fogDensity} :
         params' = [params EXCEPT !.fogDensity = v]
    /\ FogHandler("onChangeFogDensity")

OnChangeFogColor ==
    /\ GuiReady
    /\ \E v \in FogColorInputs \ {params.fogColor} :
         params' = [params EXCEPT !.fogColor = v]
    /\ FogHandler("onChangeFogColor")

-----------------------------------------------------------------------------
(* Frame loop and teardown *)

animate ==
    /\ animationFrame \in {"call", "requested"}
    /\ frames < MaxFrames
    /\ frames' = frames + 1
    /\ animationFrame' = "requested"
    /\ IF params.rain
       THEN updateRain
       ELSE UNCHANGED <<rainParticles, rainGeometry>> /\ recycledRain' = {}
    /\ IF params.snow
       THEN updateSnow
       ELSE UNCHANGED <<snowParticles, snowGeometry>> /\ recycledSnow' = {}
    /\ lastOp' = "animate"
    /\ UNCHANGED <<params, rainMaterial, snowMaterial, sceneChildren, sceneFog,
                   rainTextureRef, snowTextureRef, disposed, guiRef, cleanedUp,
                   allocations>>

\* the function the effect returns
cleanup ==
    /\ animationFrame = "requested"
    /\ ~cleanedUp
    /\ cleanedUp' = TRUE
    /\ disposed' = disposed
         \cup Released(rainGeometry, rainMaterial)
         \cup (IF rainTextureRef # Null THEN {<<"texture", "rain">>} ELSE {})
         \cup Released(snowGeometry, snowMaterial)
         \cup (IF snowTextureRef # Null THEN {<<"texture", "snow">>} ELSE {})
    /\ rainTextureRef' = Null
    /\ snowTextureRef' = Null
    /\ guiRef' = FALSE
    /\ sceneChildren' = {}
    /\ NoRecycle
    /\ lastOp' = "cleanup"
    /\ UNCHANGED <<params, rainVars, snowVars, sceneFog, animationFrame, allocations,
                   frames>>

-----------------------------------------------------------------------------
(* The state the effect body builds (lines 61-335)                          *)

\* the initial params; the Intensity values 5000 and 2000 are scaled down to
\* one particle
DefaultParams ==
    [rain |-> TRUE, rainIntensity |-> 1, rainSpeed |-> 500, rainColor |-> 11184878,
     rainSize |-> 30,
     snow |-> FALSE, snowIntensity |-> 1, snowSpeed |-> 50, flakeSize |-> 20,
     snowColor |-> 16777215,
     fog |-> TRUE, fogDensity |-> 20, fogColor |-> 13421772,
     windStrengthX |-> 5, windStrengthZ |-> 2]

\* the state after the effect body ran with params p; rainBuf / snowBuf is <<>>
\* when the population was not created and <<buffer>> when the creation loop
\* filled buffer
Mounted(p, rainBuf, snowBuf) ==
    LET hasRain == Len(rainBuf) = 1
        hasSnow == Len(snowBuf) = 1
        nRain == IF hasRain THEN 1 ELSE 0
        nSnow == IF hasSnow THEN 1 ELSE 0
    IN /\ params = p
       /\ rainTextureRef = [texture |-> "rain"]
       /\ snowTextureRef = [texture |-> "snow"]
       /\ rainGeometry = IF hasRain THEN [id |-> 1, position |-> rainBuf[1]] ELSE Null
       /\ rainMaterial = IF hasRain
                         THEN [id |-> 1, size |-> p.rainSize, color |-> p.rainColor]
                         ELSE Null
       /\ rainParticles = IF hasRain THEN [visible |-> TRUE, rotationY |-> 0] ELSE Null
       /\ snowGeometry = IF hasSnow THEN [id |-> nRain + 1, position |-> snowBuf[1]]
                         ELSE Null
       /\ snowMaterial = IF hasSnow
                         THEN [id |-> nRain + 1, size |-> p.flakeSize, color |-> p.snowColor]
                         ELSE Null
       /\ snowParticles = IF hasSnow THEN [visible |-> TRUE, rotationY |-> 0] ELSE Null
       /\ sceneChildren = (IF hasRain THEN {"rain"} ELSE {})
                            \cup (IF hasSnow THEN {"snow"} ELSE {})
       /\ sceneFog = IF p.fog THEN [color |-> p.fogColor, density |-> p.fogDensity]
                     ELSE Null
       /\ disposed = {}
       /\ guiRef = TRUE
       /\ cleanedUp = FALSE
       /\ allocations = nRain + nSnow
       /\ frames = 0
       /\ lastOp = "mount"
       /\ recycledRain = {}
       /\ recycledSnow = {}

\* what `if (params.rain) createRain()` leaves for a flag and a count
MountBuffers(enabled, count) ==
    IF enabled THEN { <<buf>> : buf \in SpawnBuffers(count) } ELSE { <<>> }

Init ==
    /\ animationFrame = "call"
    /\ \E rainBuf \in MountBuffers(DefaultParams.rain, DefaultParams.rainIntensity),
          snowBuf \in MountBuffers(DefaultParams.snow, DefaultParams.snowIntensity) :
         Mounted(DefaultParams, rainBuf, snowBuf)

\* the component: control panel, frame loop and teardown
Next ==
    \/ OnChangeRain
    \/ OnFinishChangeRainIntensity({1})
    \/ OnChangeRainSize
    \/ OnChangeSnow
    \/ OnFinishChangeSnowIntensity({1})
    \/ OnChangeFlakeSize
    \/ animate
    \/ cleanup

Spec == Init /\ [][Next]_vars

\* population sizes: rebuilds with different counts, and frames
NextCount ==
    \/ OnFinishChangeRainIntensity({1, 2})
    \/ OnFinishChangeSnowIntensity({1})
    \/ OnChangeSnow
    \/ animate

SpecCount == Init /\ [][NextCount]_vars

\* the fog controllers, between frames
NextFog ==
    \/ OnChangeFog
    \/ OnChangeFogDensity
    \/ OnChangeFogColor
    \/ animate

SpecFog == Init /\ [][NextFog]_vars

-----------------------------------------------------------------------------
(* The advance step on its own: one particle per population, started anywhere *)
(* in the volume, under any slider setting.  Exactly one population is        *)
(* enabled and advanced by the frames; the other exists and stays put.        *)

InputXZ == {-25 * Scale, 0, 25 * Scale}
InputY == {0, (3 * Scale) \div 10, 20 * Scale}
InputPositions == { [x |-> x, y |-> y, z |-> z] : x \in InputXZ, y \in InputY, z \in InputXZ }
RainSpeedInputs == {10, 500, 2000}
SnowSpeedInputs == {10, 50, 500}
WindInputs == {-50, 0, 50}

InitAdvance ==
    /\ animationFrame = "requested"
    /\ \E p \in InputPositions, rainOn \in BOOLEAN,
          rs \in RainSpeedInputs, ss \in SnowSpeedInputs,
          wx \in WindInputs, wz \in WindInputs :
         /\ Mounted([DefaultParams EXCEPT !.rain = rainOn, !.snow = ~rainOn,
                                         !.rainSpeed = rs, !.snowSpeed = ss,
                                         !.windStrengthX = wx, !.windStrengthZ = wz],
                    << <<p>> >>, << <<p>> >>)

NextAdvance == animate

SpecAdvance == InitAdvance /\ [][NextAdvance]_vars

-----------------------------------------------------------------------------
(* Population creation for any count, the ones no slider position gives       *)
(* included                                                                   *)

CountInputs == {-1, 0, 1}

InitCreate ==
    /\ animationFrame = "call"
    /\ \E rainOn \in BOOLEAN, snowOn \in BOOLEAN,
          rainCount \in CountInputs, snowCount \in CountInputs :
         \E rainBuf \in MountBuffers(rainOn, rainCount),
            snowBuf \in MountBuffers(snowOn, snowCount) :
           Mounted([DefaultParams EXCEPT !.rain = rainOn, !.snow = snowOn,
                                         !.rainIntensity = rainCount,
                                         !.snowIntensity = snowCount],
                   rainBuf, snowBuf)

NextCreate ==
    \/ OnChangeRain
    \/ OnChangeSnow
    \/ animate

SpecCreate == InitCreate /\ [][NextCreate]_vars

-----------------------------------------------------------------------------
(* Properties *)

Populations == {"rain", "snow"}
Particles(pop) == IF pop = "rain" THEN rainParticles ELSE snowParticles
Geometry(pop) == IF pop = "rain" THEN rainGeometry ELSE snowGeometry
Enabled(pop) == IF pop = "rain" THEN params.rain ELSE params.snow
Recycled(pop) == IF pop = "rain" THEN recycledRain ELSE recycledSnow

\* every particle of every existing population
AllPositions ==
    UNION { IF Geometry(pop) = Null THEN {}
            ELSE { Geometry(pop).position[i] : i \in 1..Len(Geometry(pop).position) } :
            pop \in Populations }

\* the particles the last frame re-seeded
RecycledPositions ==
    UNION { { Geometry(pop).position[i] : i \in Recycled(pop) } : pop \in Populations }

NoWind == params.windStrengthX = 0 /\ params.windStrengthZ = 0

\* C1: on teardown the frame loop is stopped before anything is released: once
\* the cleanup has disposed the population buffers no call of animate occurs
\* and none remains requested.
C1_LoopStoppedBeforeDispose ==
    cleanedUp => (animationFrame # "requested" /\ lastOp # "animate")

\* C2: every particle of both populations has -25 <= x <= 25, -25 <= z <= 25
\* and y >= 0 whenever an advance step has returned, for every speed and wind.
C2_BoundsInvariant ==
    \A q \in AllPositions :
        /\ -25 * Scale <= q.x /\ q.x <= 25 * Scale
        /\ -25 * Scale <= q.z /\ q.z <= 25 * Scale
        /\ q.y >= 0

\* a frame in which the wind blew the snow particle through a side face and the
\* advance step re-seeded it
C2_Witness ==
    /\ lastOp = "animate"
    /\ params.snow
    /\ params.windStrengthX = -50
    /\ recycledSnow = {1}

Abs(n) == IF n < 0 THEN -n ELSE n

C4_RecycleRangeHalfOpen ==
    lastOp = "animate" =>
        \A q \in RecycledPositions :
            /\ 10 * Scale <= q.y /\ q.y < 40 * Scale
            /\ -25 * Scale <= q.x /\ q.x < 25 * Scale
            /\ -25 * Scale <= q.z /\ q.z < 25 * Scale

\* C4 amended: a particle the advance step recycled ends the call with
\* y in [10, 40], x in [-25, 25] and z in [-25, 25]: the stored value of a
\* sample next to 1 is the upper end itself.
C4_RecycleRangeClosed ==
    lastOp = "animate" =>
        \A q \in RecycledPositions :
            /\ 10 * Scale <= q.y /\ q.y <= 40 * Scale
            /\ -25 * Scale <= q.x /\ q.x <= 25 * Scale
            /\ -25 * Scale <= q.z /\ q.z <= 25 * Scale

\* a rain particle that fell below the ground and was re-seeded on the lowest
\* sample of the recycle band
C4_Witness ==
    /\ lastOp = "animate"
    /\ recycledRain = {1}
    /\ NoWind
    /\ rainGeometry.position[1].y = 10 * Scale

C6_FogMatchesParams ==
    /\ (sceneFog # Null) <=> params.fog
    /\ sceneFog # Null =>
          /\ sceneFog.density = params.fogDensity
          /\ sceneFog.color = params.fogColor

\* fog switched back on after the density was moved to 0.05
C6_Witness ==
    /\ lastOp = "onChangeFog"
    /\ params.fog
    /\ params.fogDensity = 50
    /\ sceneFog # Null
    /\ sceneFog.density = 50

\* C7: the enable checkbox of a population that exists only sets its visible
\* flag: geometry, buffer and material stay the same objects and nothing is
\* disposed; it builds a population only when enabling while none exists.
C7_ToggleReusesBuffer ==
    [][/\ (params'.rain # params.rain /\ rainParticles # Null) =>
            /\ rainGeometry' = rainGeometry
            /\ rainMaterial' = rainMaterial
            /\ rainParticles' = [rainParticles EXCEPT !.visible = params'.rain]
            /\ disposed' = disposed
            /\ allocations' = allocations
       /\ (params'.rain # params.rain /\ allocations' # allocations) =>
            (rainParticles = Null /\ params'.rain)
       /\ (params'.snow # params.snow /\ snowParticles # Null) =>
            /\ snowGeometry' = snowGeometry
            /\ snowMaterial' = snowMaterial
            /\ snowParticles' = [snowParticles EXCEPT !.visible = params'.snow]
            /\ disposed' = disposed
            /\ allocations' = allocations
       /\ (params'.snow # params.snow /\ allocations' # allocations) =>
            (snowParticles = Null /\ params'.snow)
      ]_vars

\* rain disabled and enabled again: shown, and still the geometry built at mount
C7_Witness ==
    /\ lastOp = "onChangeRain"
    /\ params.rain
    /\ rainParticles.visible
    /\ rainGeometry.id = 1

Count(geometry) == IF geometry = Null THEN 0 ELSE Len(geometry.position)

\* C8: a frame leaves the number of particles of each population as it was;
\* the number changes only when createRain / createSnow builds a new
\* geometry, and is then the Intensity the handler has just written.
C8_CountChangesOnlyByCreation ==
    [][/\ frames' # frames =>
            /\ Count(rainGeometry') = Count(rainGeometry)
            /\ Count(snowGeometry') = Count(snowGeometry)
       /\ Count(rainGeometry') # Count(rainGeometry) =>
            /\ lastOp' \in {"onChangeRain", "onFinishChangeRainIntensity"}
            /\ rainGeometry = Null \/ rainGeometry'.id # rainGeometry.id
            /\ Count(rainGeometry') = params'.rainIntensity
       /\ Count(snowGeometry') # Count(snowGeometry) =>
            /\ lastOp' \in {"onChangeSnow", "onFinishChangeSnowIntensity"}
            /\ snowGeometry = Null \/ snowGeometry'.id # snowGeometry.id
            /\ Count(snowGeometry') = params'.snowIntensity
      ]_vars

\* a rebuilt rain population of two particles after a frame that recycled one
\* of them and kept the other
C8_Witness ==
    /\ lastOp = "animate"
    /\ Count(rainGeometry) = 2
    /\ Cardinality(recycledRain) = 1

\* C9 as stated: a change of the point size of a population that exists
\* rebuilds it, as a change of its count does.
C9_SizeChangeRebuilds ==
    [][/\ (params'.rainSize # params.rainSize /\ rainGeometry # Null) =>
            /\ rainGeometry'.id # rainGeometry.id
            /\ <<"geometry", rainGeometry.id>> \in disposed'
       /\ (params'.flakeSize # params.flakeSize /\ snowGeometry # Null) =>
            /\ snowGeometry'.id # snowGeometry.id
            /\ <<"geometry", snowGeometry.id>> \in disposed'
      ]_vars

\* the creation band: x, z in [-25, 25], y in [5, 35]
InSpawnBand(q) ==
    /\ -25 * Scale <= q.x /\ q.x <= 25 * Scale
    /\ -25 * Scale <= q.z /\ q.z <= 25 * Scale
    /\ 5 * Scale <= q.y /\ q.y <= 35 * Scale

Rebuilt(old, new, count) ==
    /\ new # Null
    /\ old # Null => (new.id # old.id /\ <<"geometry", old.id>> \in disposed')
    /\ Len(new.position) = count
    /\ \A i \in 1..Len(new.position) : InSpawnBand(new.position[i])

\* C9 amended: releasing the Intensity slider rebuilds the population (the old
\* geometry is disposed, a new one is filled with fresh positions of the
\* creation band); a change of the point size is written into the existing
\* material and leaves geometry, buffer and display object as they were.
C9_CountRebuildsSizeInPlace ==
    [][/\ lastOp' = "onFinishChangeRainIntensity" =>
            Rebuilt(rainGeometry, rainGeometry', params'.rainIntensity)
       /\ lastOp' = "onFinishChangeSnowIntensity" =>
            Rebuilt(snowGeometry, snowGeometry', params'.snowIntensity)
       /\ params'.rainSize # params.rainSize =>
            /\ rainGeometry' = rainGeometry
            /\ rainParticles' = rainParticles
            /\ disposed' = disposed
            /\ allocations' = allocations
            /\ rainMaterial # Null =>
                 rainMaterial' = [rainMaterial EXCEPT !.size = params'.rainSize]
       /\ params'.flakeSize # params.flakeSize =>
            /\ snowGeometry' = snowGeometry
            /\ snowParticles' = snowParticles
            /\ disposed' = disposed
            /\ allocations' = allocations
            /\ snowMaterial # Null =>
                 snowMaterial' = [snowMaterial EXCEPT !.size = params'.flakeSize]
      ]_vars

\* the rain size moved to 1.0 on the material of the geometry built at mount
C9_Witness ==
    /\ lastOp = "onChangeRainSize"
    /\ rainMaterial.size = 100
    /\ rainMaterial.id = 1
    /\ rainGeometry.id = 1
    /\ disposed = {}

\* C10: when a frame has been rendered, a population attached to the scene is
\* visible only if its enabled flag is set.
C10_VisibleImpliesEnabled ==
    lastOp = "animate" =>
        \A pop \in Populations :
            (pop \in sceneChildren /\ Particles(pop).visible) => Enabled(pop)

====
